---- MODULE Spec2Model ----
(***************************************************************************)
(* Model of normalize-conversation-for-slack.js: the action that turns the *)
(* output of the Conversation service plus the raw Slack input into the    *)
(* body of a Slack chat.postMessage / chat.update request.                 *)
(*                                                                         *)
(* JavaScript values are tagged records, so that truthiness, property      *)
(* access on undefined/null, typeof and exceptions are modelled as the     *)
(* language defines them.  A function of the source is an operator that    *)
(* yields either a JavaScript value or a Throw record (an exception        *)
(* propagating out of it).                                                 *)
(***************************************************************************)
EXTENDS Integers, Sequences, FiniteSets, TLC

(***************************************************************************)
(* Bounds of the explored inputs.                                          *)
(***************************************************************************)
MaxGeneric == 2     \* longest output.generic list
MaxText == 2        \* longest output.text list
MaxOptions == 2     \* most buttons of one option element

(***************************************************************************)
(* JavaScript values.                                                      *)
(***************************************************************************)
Undef == [t |-> "undefined"]
Null == [t |-> "null"]
Str(s) == [t |-> "string", s |-> s]
Num(n) == [t |-> "number", n |-> n]
Bool(b) == [t |-> "boolean", b |-> b]
Obj(f) == [t |-> "object", f |-> f]
Arr(e) == [t |-> "array", e |-> e]
Throw(err, msg) == [t |-> "throw", err |-> err, msg |-> msg]

Empty == [k \in {} |-> Undef]

IsThrow(v) == v.t = "throw"

\* ToBoolean of the language: what `if (v)`, `v && w`, `v || w` and assert test.
Truthy(v) ==
  CASE v.t = "undefined" -> FALSE
    [] v.t = "null" -> FALSE
    [] v.t = "string" -> v.s # ""
    [] v.t = "number" -> v.n # 0
    [] v.t = "boolean" -> v.b
    [] v.t = "object" -> TRUE
    [] v.t = "array" -> TRUE
    [] OTHER -> FALSE

\* The typeof operator.
TypeOf(v) ==
  CASE v.t = "undefined" -> "undefined"
    [] v.t = "string" -> "string"
    [] v.t = "number" -> "number"
    [] v.t = "boolean" -> "boolean"
    [] OTHER -> "object"

\* v instanceof Object / v instanceof Array, for values that came from JSON.
InstanceOfObject(v) == v.t \in {"object", "array"}
InstanceOfArray(v) == v.t = "array"

\* Property read v.k: a TypeError on undefined and null, undefined for a
\* missing property and for the named properties of primitives and arrays.
Get(v, k) ==
  CASE IsThrow(v) -> v
    [] v.t \in {"undefined", "null"} -> Throw("TypeError", "Cannot read property")
    [] v.t = "object" -> IF k \in DOMAIN v.f THEN v.f[k] ELSE Undef
    [] OTHER -> Undef

\* a && b and a || b (b is evaluated only when it is selected).
AndAlso(a, b) == IF Truthy(a) THEN b ELSE a
OrElse(a, b) == IF Truthy(a) THEN a ELSE b

\* String conversion inside a template literal.
StringOf(v) ==
  CASE v.t = "string" -> v.s
    [] v.t = "undefined" -> "undefined"
    [] v.t = "null" -> "null"
    [] OTHER -> "[object Object]"

\* Array.prototype.join(sep) on a list of strings.
RECURSIVE JoinFrom(_, _, _)
JoinFrom(e, i, sep) ==
  IF i > Len(e) THEN ""
  ELSE IF i = Len(e) THEN StringOf(e[i])
  ELSE StringOf(e[i]) \o sep \o JoinFrom(e, i + 1, sep)

Join(arr, sep) ==
  IF arr.t = "array" THEN Str(JoinFrom(arr.e, 1, sep))
  ELSE Throw("TypeError", "join is not a function")

\* An assertion that never fails.
assertTruthy_Disabled(v, msg) == Undef

\* An equality assertion that never fails.
assertEqual_Disabled(a, b) == Undef

\* assert(value, message) / assert.equal(a, b): the exception it raises, or
\* Undef when it passes.
assertTruthy(v, msg) == IF Truthy(v) THEN Undef ELSE Throw("AssertionError", msg)
assertEqual(a, b) == IF a = b THEN Undef ELSE Throw("AssertionError", "==")

(***************************************************************************)
(* The endpoints.                                                          *)
(***************************************************************************)
urlChatPost == Str("https://slack.com/api/chat.postMessage")
urlChatUpdate == Str("https://slack.com/api/chat.update")

(***************************************************************************)
(* JSON.parse on the payload strings of the explored inputs: the value     *)
(* each text denotes, a SyntaxError for a text that is not JSON.           *)
(***************************************************************************)
PayloadEmpty == "{}"
PayloadNull == "null"
PayloadMalformed == "{channel"
PayloadChannel == "{\"channel\":{\"id\":\"CP\"}}"
PayloadChannelUrl == "{\"channel\":{\"id\":\"CP\"},\"response_url\":\"https://hooks/r\"}"
PayloadChannelOrig ==
  "{\"channel\":{\"id\":\"CP\"},\"original_message\":{\"ts\":\"123\",\"text\":\"orig\"}}"
PayloadChannelUrlOrig ==
  "{\"channel\":{\"id\":\"CP\"},\"response_url\":\"https://hooks/r\",\"original_message\":{\"ts\":\"123\",\"text\":\"orig\"}}"
PayloadChannelOrigNoTs ==
  "{\"channel\":{\"id\":\"CP\"},\"original_message\":{\"text\":\"orig\"}}"
PayloadUrlOnly == "{\"response_url\":\"https://hooks/r\"}"

ChannelCP == Obj([id |-> Str("CP")])
OrigMessage == Obj([ts |-> Str("123"), text |-> Str("orig")])
ResponseUrl == Str("https://hooks/r")

JSONParse(v) ==
  IF v.t # "string" THEN Throw("SyntaxError", "Unexpected token")
  ELSE CASE v.s = PayloadEmpty -> Obj(Empty)
         [] v.s = PayloadNull -> Null
         [] v.s = PayloadChannel -> Obj([channel |-> ChannelCP])
         [] v.s = PayloadChannelUrl ->
              Obj([channel |-> ChannelCP, response_url |-> ResponseUrl])
         [] v.s = PayloadChannelOrig ->
              Obj([channel |-> ChannelCP, original_message |-> OrigMessage])
         [] v.s = PayloadChannelUrlOrig ->
              Obj([channel |-> ChannelCP, response_url |-> ResponseUrl,
                   original_message |-> OrigMessage])
         [] v.s = PayloadChannelOrigNoTs ->
              Obj([channel |-> ChannelCP,
                   original_message |-> Obj([text |-> Str("orig")])])
         [] v.s = PayloadUrlOnly -> Obj([response_url |-> ResponseUrl])
         [] OTHER -> Throw("SyntaxError", "Unexpected token")

\* const slackPayload = slack.payload && JSON.parse(slack.payload)
ParsedPayload(params) ==
  LET payload == Get(Get(Get(params, "raw_input_data"), "slack"), "payload")
  IN  IF Truthy(payload) THEN JSONParse(payload) ELSE payload

SlackEventOf(params) == Get(Get(Get(params, "raw_input_data"), "slack"), "event")

ConvOutput(params) == Get(Get(params, "conversation"), "output")

(***************************************************************************)
(* Statements in sequence.  A statement is modelled by the exception it    *)
(* raises or, when it raises none, by its value; what follows it is        *)
(* reached only when it raised none.                                       *)
(***************************************************************************)
\* The exception of the first statement of a sequence that raises one, Undef
\* when none does.
FirstThrow(seq) ==
  IF \E i \in DOMAIN seq : IsThrow(seq[i])
    THEN seq[CHOOSE i \in DOMAIN seq :
               IsThrow(seq[i]) /\ \A j \in 1..(i - 1) : ~IsThrow(seq[j])]
    ELSE Undef

\* statement; rest
AndThen(statement, rest) == IF IsThrow(statement) THEN statement ELSE rest

(***************************************************************************)
(* validateParameters: Undef when every assertion passes, otherwise the    *)
(* exception of the first statement that throws.                           *)
(***************************************************************************)
\* slackEvent ? slackEvent.channel
\*            : slackPayload && slackPayload.channel && slackPayload.channel.id
ChannelOf(slackEvent, slackPayload) ==
  IF Truthy(slackEvent) THEN Get(slackEvent, "channel")
  ELSE AndAlso(slackPayload,
               AndAlso(Get(slackPayload, "channel"),
                       Get(Get(slackPayload, "channel"), "id")))

validateParameters(params) ==
  FirstThrow(<<
    Get(params, "conversation"),
    assertTruthy(Get(params, "conversation"), "No conversation output."),
    assertTruthy(ConvOutput(params), "No conversation output message."),
    assertTruthy(OrElse(Get(ConvOutput(params), "slack"),
                        OrElse(Get(ConvOutput(params), "generic"),
                               Get(ConvOutput(params), "text"))),
                 "No facebook/generic/text field in conversation.output."),
    assertTruthy(Get(params, "raw_input_data"), "No raw input data found."),
    assertTruthy(Get(Get(params, "raw_input_data"), "slack"),
                 "No Slack input data found."),
    assertTruthy(Get(Get(params, "raw_input_data"), "conversation"),
                 "No Conversation input data found."),
    ParsedPayload(params),
    assertTruthy(ChannelOf(SlackEventOf(params), ParsedPayload(params)),
                 "No Slack channel found in raw data.") >>)

(***************************************************************************)
(* getSlackChannel, getSlackPostUrl                                        *)
(***************************************************************************)
getSlackChannel(params) ==
  AndThen(ParsedPayload(params),
          ChannelOf(SlackEventOf(params), ParsedPayload(params)))

\* JSON.parse(payload).response_url || urlChatUpdate
ResponseUrlOr(responseUrl, otherwise) ==
  IF IsThrow(responseUrl) THEN responseUrl ELSE OrElse(responseUrl, otherwise)

getSlackPostUrl(params) ==
  IF Truthy(Get(Get(Get(params, "raw_input_data"), "slack"), "payload"))
    THEN ResponseUrlOr(
           Get(JSONParse(Get(Get(Get(params, "raw_input_data"), "slack"), "payload")),
               "response_url"),
           urlChatUpdate)
    ELSE urlChatPost

(***************************************************************************)
(* getOriginalMessageTimestamp, getOutputText, getAttachments              *)
(***************************************************************************)
\* slackPayload && slackPayload.original_message
\*              && slackPayload.original_message[key]
OriginalMessageField(slackPayload, key) ==
  AndAlso(slackPayload,
          AndAlso(Get(slackPayload, "original_message"),
                  Get(Get(slackPayload, "original_message"), key)))

\* (slackEvent.message && slackEvent.message.ts) || slackEvent.ts
EventTimestamp(slackEvent) ==
  OrElse(AndAlso(Get(slackEvent, "message"), Get(Get(slackEvent, "message"), "ts")),
         Get(slackEvent, "ts"))

\* The event's own timestamp taken before the nested message's.
EventTimestamp_OwnFirst(slackEvent) ==
  OrElse(Get(slackEvent, "ts"),
         AndAlso(Get(slackEvent, "message"), Get(Get(slackEvent, "message"), "ts")))

\* The event's own timestamp taken before the nested message's.
getOriginalMessageTimestamp_EventFirst(params) ==
  AndThen(ParsedPayload(params),
          IF Truthy(SlackEventOf(params))
            THEN EventTimestamp_OwnFirst(SlackEventOf(params))
            ELSE OriginalMessageField(ParsedPayload(params), "ts"))

getOriginalMessageTimestamp(params) ==
  AndThen(ParsedPayload(params),
          IF Truthy(SlackEventOf(params))
            THEN EventTimestamp(SlackEventOf(params))
            ELSE OriginalMessageField(ParsedPayload(params), "ts"))

\* The text list joined without a separator.
getOutputText_NoSeparator(params) ==
  AndThen(ParsedPayload(params),
          IF Truthy(SlackEventOf(params))
            THEN Join(Get(ConvOutput(params), "text"), "")
            ELSE OriginalMessageField(ParsedPayload(params), "text"))

getOutputText(params) ==
  AndThen(ParsedPayload(params),
          IF Truthy(SlackEventOf(params))
            THEN Join(Get(ConvOutput(params), "text"), " ")
            ELSE OriginalMessageField(ParsedPayload(params), "text"))

\* [{ text: joined }]
AttachmentOf(joined) ==
  IF IsThrow(joined) THEN joined ELSE Arr(<<Obj([text |-> joined])>>)

\* The attachment wrapping the original message's text.
getAttachments_Original(params) ==
  IF Truthy(SlackEventOf(params)) THEN Undef
  ELSE AttachmentOf(Get(Get(ParsedPayload(params), "original_message"), "text"))

getAttachments(params) ==
  IF Truthy(SlackEventOf(params)) THEN Undef
  ELSE AttachmentOf(Join(Get(ConvOutput(params), "text"), " "))

(***************************************************************************)
(* getNormalizedOptionsValue                                               *)
(***************************************************************************)
\* assert.equal(typeof normalizedValue, 'string'); return normalizedValue;
ReturnString(normalizedValue) ==
  AndThen(assertEqual(TypeOf(normalizedValue), "string"), normalizedValue)

getNormalizedOptionsValue(value) ==
  IF InstanceOfObject(value)
    THEN AndThen(
           assertTruthy(AndAlso(Get(value, "input"),
                                Get(Get(value, "input"), "text")), ""),
           \* assert(typeof value.input.text, 'string'): the first argument is
           \* the name of a type, the second is the message.
           AndThen(assertTruthy(Str(TypeOf(Get(Get(value, "input"), "text"))),
                                "string"),
                   ReturnString(Get(Get(value, "input"), "text"))))
    ELSE ReturnString(value)

(***************************************************************************)
(* The generators of the generic response types.                           *)
(***************************************************************************)
generateSlackImageData(element) ==
  Obj([attachments |->
         Arr(<<Obj([title |-> Get(element, "title"),
                    pretext |-> Get(element, "description"),
                    image_url |-> Get(element, "source")])>>)])

generateSlackAudioData(element) ==
  Obj([text |-> Str("<" \o StringOf(Get(element, "source")) \o "|"
                    \o StringOf(Get(element, "title")) \o ">"),
       unfurl_links |-> Bool(TRUE),
       unfurl_media |-> Bool(TRUE)])

generateSlackVideoData(element) ==
  Obj([text |-> Str("<" \o StringOf(Get(element, "source")) \o "|"
                    \o StringOf(Get(element, "title")) \o ">"),
       unfurl_links |-> Bool(TRUE),
       unfurl_media |-> Bool(TRUE)])

\* The button of one option, given its normalized value.
ButtonOf(optionObj, value) ==
  AndThen(value,
          Obj([name |-> Get(optionObj, "label"),
               type |-> Str("button"),
               text |-> Get(optionObj, "label"),
               value |-> value]))

\* The callback of element.options.map.
OptionButton(optionObj) ==
  ButtonOf(optionObj, getNormalizedOptionsValue(Get(optionObj, "value")))

\* The return statement, reached when no callback of map has thrown.
OptionsAttachment(element, buttonsData) ==
  AndThen(FirstThrow(buttonsData),
          Obj([attachments |->
                 Arr(<<Obj([text |-> Get(element, "title"),
                            callback_id |-> Get(element, "title"),
                            actions |-> Arr(buttonsData)])>>)]))

generateSlackOptionsData(element) ==
  IF ~InstanceOfArray(Get(element, "options"))
    THEN Throw("TypeError", "Cannot read property 'map'")
    ELSE OptionsAttachment(
           element,
           [i \in DOMAIN Get(element, "options").e |->
              OptionButton(Get(element, "options").e[i])])

generateSlackPauseMessage(element) == element

(***************************************************************************)
(* insertConversationOutput                                                *)
(***************************************************************************)
\* Object.assign({}, src) for a source that is an object: its own properties
\* on a fresh object (a number or a boolean has none).
ObjectAssign(src) == IF src.t = "object" THEN Obj(src.f) ELSE Obj(Empty)

\* slackOutput[key] = value
SetKey(obj, key, value) ==
  Obj([k \in DOMAIN obj.f \cup {key} |-> IF k = key THEN value ELSE obj.f[k]])

\* if (value) { slackOutput[key] = value; }
SetKeyIfTruthy(obj, key, value) ==
  AndThen(obj,
          AndThen(value, IF Truthy(value) THEN SetKey(obj, key, value) ELSE obj))

\* A copy that keeps the keys the destination already has.
CopyKeys_BaseWins(dst, src) ==
  Obj([k \in DOMAIN dst.f \cup DOMAIN src.f |->
         IF k \in DOMAIN dst.f THEN dst.f[k] ELSE src.f[k]])

\* Object.keys(src).forEach(key => { dst[key] = src[key]; })
CopyKeys(dst, src) ==
  Obj([k \in DOMAIN dst.f \cup DOMAIN src.f |->
         IF k \in DOMAIN src.f THEN src.f[k] ELSE dst.f[k]])

RecognizedTypes == {"image", "audio", "video", "option", "pause", "text"}

\* slackOutput.message.push(generated)
Pushed(generated) == AndThen(generated, Arr(<<generated>>))

\* The body of the switch: the entries one generic element pushes (none for
\* the default case), or the exception its generator throws.
ElementMessages(element) ==
  LET type == Get(element, "response_type")
  IN  CASE IsThrow(type) -> type
        [] type = Str("image") -> Pushed(generateSlackImageData(element))
        [] type = Str("audio") -> Pushed(generateSlackAudioData(element))
        [] type = Str("video") -> Pushed(generateSlackVideoData(element))
        [] type = Str("option") -> Pushed(generateSlackOptionsData(element))
        [] type = Str("pause") -> Pushed(generateSlackPauseMessage(element))
        [] type = Str("text") -> Pushed(Obj([text |-> Get(element, "text")]))
        [] OTHER -> Arr(<<>>)

\* A loop that puts each entry in front of the list.
RECURSIVE PushMessages_Front(_, _, _)
PushNext_Front(pushed, generic, i, message) ==
  AndThen(pushed, PushMessages_Front(generic, i + 1, pushed.e \o message))

PushMessages_Front(generic, i, message) ==
  IF i > Len(generic) THEN Arr(message)
  ELSE PushNext_Front(ElementMessages(generic[i]), generic, i, message)

\* generic.forEach(...): the message list after the elements from i on have
\* been visited, or the exception that ended the loop.
RECURSIVE PushMessages(_, _, _)
PushNext(pushed, generic, i, message) ==
  AndThen(pushed, PushMessages(generic, i + 1, message \o pushed.e))

PushMessages(generic, i, message) ==
  IF i > Len(generic) THEN Arr(message)
  ELSE PushNext(ElementMessages(generic[i]), generic, i, message)

\* generic instanceof Array ? generic : [Object.assign({}, generic)]
GenericList(generic) ==
  IF InstanceOfArray(generic) THEN generic.e ELSE <<ObjectAssign(generic)>>

\* slackOutput.message = [] and the pushes of the loop.
WithMessage(slackOutput, message) ==
  AndThen(message, SetKey(slackOutput, "message", message))

\* 2. the generic response types: slackOutput.message, and return.
GenericBranch(params, slackOutput) ==
  WithMessage(slackOutput,
              PushMessages(GenericList(Get(ConvOutput(params), "generic")), 1, <<>>))

\* 3. text only: slackOutput.text and slackOutput.attachments, and return.
TextBranch(params, slackOutput) ==
  SetKeyIfTruthy(SetKeyIfTruthy(slackOutput, "text", getOutputText(params)),
                 "attachments", getAttachments(params))

\* The generic branch without its return statement.
AfterTimestamp_FallThrough(params, slackOutput) ==
  AndThen(slackOutput,
          IF Truthy(Get(ConvOutput(params), "generic"))
            THEN TextBranch(params, GenericBranch(params, slackOutput))
            ELSE TextBranch(params, slackOutput))

\* What follows the timestamp: branch 2 or branch 3.
AfterTimestamp(params, slackOutput) ==
  AndThen(slackOutput,
          IF Truthy(Get(ConvOutput(params), "generic"))
            THEN GenericBranch(params, slackOutput)
            ELSE TextBranch(params, slackOutput))

insertConversationOutput(params, output) ==
  IF Truthy(Get(ConvOutput(params), "slack"))
    THEN CopyKeys(ObjectAssign(output), Get(ConvOutput(params), "slack"))
    ELSE AfterTimestamp(
           params,
           SetKeyIfTruthy(ObjectAssign(output), "ts",
                          getOriginalMessageTimestamp(params)))

(***************************************************************************)
(* main: the executor of the promise, and the promise the constructor      *)
(* makes of it.                                                            *)
(***************************************************************************)
\* const output = {channel, url, raw_input_data, raw_output_data}
BaseOutput(params, channel, url) ==
  AndThen(channel,
          AndThen(url,
                  Obj([channel |-> channel,
                       url |-> url,
                       raw_input_data |-> Get(params, "raw_input_data"),
                       raw_output_data |->
                         Obj([conversation |-> Get(params, "conversation")])])))

\* resolve(insertConversationOutput(params, output))
ResolveWith(params, output) ==
  AndThen(output, insertConversationOutput(params, output))

\* What the executor passes to resolve, or the exception it throws before
\* it reaches resolve.
Executor(params) ==
  AndThen(validateParameters(params),
          ResolveWith(params,
                      BaseOutput(params, getSlackChannel(params),
                                 getSlackPostUrl(params))))

\* A constructor that lets the executor's exception escape to the caller.
NewPromise_Propagating(outcome) ==
  IF IsThrow(outcome)
    THEN [state |-> "none", value |-> Undef, resolveCalls |-> 0,
          thrown |-> outcome]
    ELSE [state |-> "fulfilled", value |-> outcome, resolveCalls |-> 1,
          thrown |-> Undef]

\* new Promise(executor): an exception of the executor rejects the promise,
\* it does not propagate to the caller of the constructor.
NewPromise(outcome) ==
  IF IsThrow(outcome)
    THEN [state |-> "rejected", value |-> outcome, resolveCalls |-> 0,
          thrown |-> Undef]
    ELSE [state |-> "fulfilled", value |-> outcome, resolveCalls |-> 1,
          thrown |-> Undef]

main(params) == NewPromise(Executor(params))

(***************************************************************************)
(* The explored inputs.                                                    *)
(***************************************************************************)
\* A field that is left out of an object literal.
Absent == [t |-> "absent"]
Opt(k, v) == IF v = Absent THEN Empty ELSE k :> v

RECURSIVE SeqsOfLen(_, _)
SeqsOfLen(S, n) ==
  IF n = 0 THEN {<<>>}
  ELSE {Append(q, x) : q \in SeqsOfLen(S, n - 1), x \in S}

SeqsUpTo(S, n) == UNION {SeqsOfLen(S, k) : k \in 0..n}

\* raw_input_data.slack.event
EventSet ==
  { Absent,
    Obj(Empty),
    Obj([channel |-> Str("CE")]),
    Obj([channel |-> Str("CE"), ts |-> Str("111")]),
    Obj([channel |-> Str("CE"), ts |-> Str("111"),
         message |-> Obj([ts |-> Str("222")])]),
    Obj([channel |-> Str("CE"), ts |-> Str("111"), message |-> Obj(Empty)]) }

\* raw_input_data.slack.payload
PayloadSet ==
  { Absent, Str(PayloadMalformed), Str(PayloadEmpty), Str(PayloadNull),
    Str(PayloadChannel), Str(PayloadChannelUrl), Str(PayloadChannelOrig),
    Str(PayloadChannelUrlOrig), Str(PayloadChannelOrigNoTs), Str(PayloadUrlOnly) }

SlackData(event, payload) == Obj(Opt("event", event) @@ Opt("payload", payload))

SlackDataSet == {SlackData(e, p) : e \in EventSet, p \in PayloadSet}

RawInput(slack, conversation) ==
  Obj(Opt("slack", slack) @@ Opt("conversation", conversation))

ConversationInput == Obj([input |-> Obj([text |-> Str("hello")])])

RawSet ==
  {Absent} \cup
  {RawInput(s, c) : s \in {Absent} \cup SlackDataSet, c \in {Absent, ConversationInput}}

\* The well-formed inbound shapes the output bodies are explored with.
BodySlackSet ==
  { SlackData(Obj([channel |-> Str("CE")]), Absent),
    SlackData(Obj([channel |-> Str("CE"), ts |-> Str("111")]), Absent),
    SlackData(Obj([channel |-> Str("CE"), ts |-> Str("111"),
                   message |-> Obj([ts |-> Str("222")])]), Absent),
    SlackData(Obj([channel |-> Str("CE"), ts |-> Str("111"), message |-> Obj(Empty)]),
              Absent),
    SlackData(Absent, Str(PayloadChannel)),
    SlackData(Absent, Str(PayloadChannelUrl)),
    SlackData(Absent, Str(PayloadChannelOrig)),
    SlackData(Obj([channel |-> Str("CE"), ts |-> Str("111")]),
              Str(PayloadChannelUrlOrig)) }

\* conversation.output.slack
OverrideSet ==
  { Absent,
    Obj(Empty),
    Obj([foo |-> Str("bar")]),
    Obj([channel |-> Str("CO"), url |-> Str("https://override"),
         text |-> Str("custom"), ts |-> Str("999")]) }

\* conversation.output.text
TextWords == {"a", "b", ""}
TextSet == {Absent} \cup {Arr([i \in DOMAIN q |-> Str(q[i])]) : q \in SeqsUpTo(TextWords, MaxText)}
TextFew == {Absent, Arr(<<Str("a"), Str("b")>>)}

\* The value of an option.
OptionValueSet ==
  { Absent,
    Str("y"),
    Str(""),
    Num(5),
    Obj(Empty),
    Obj([input |-> Obj(Empty)]),
    Obj([input |-> Obj([text |-> Str("y")])]),
    Obj([input |-> Obj([text |-> Str("")])]),
    Obj([input |-> Obj([text |-> Num(5)])]) }

Option(label, value) == Obj(Opt("label", Str(label)) @@ Opt("value", value))

OptionElement(values) ==
  Obj([response_type |-> Str("option"), title |-> Str("Pick"),
       options |-> Arr([i \in DOMAIN values |->
                          Option(IF i = 1 THEN "Yes" ELSE "No", values[i])])])

OptionElementSet == {OptionElement(q) : q \in SeqsUpTo(OptionValueSet, MaxOptions)}

\* The elements of conversation.output.generic.
ElementSet ==
  { Obj([response_type |-> Str("image"), title |-> Str("T"),
         description |-> Str("D"), source |-> Str("S")]),
    Obj([response_type |-> Str("audio"), title |-> Str("T"), source |-> Str("S")]),
    Obj([response_type |-> Str("video"), source |-> Str("S")]),
    Obj([response_type |-> Str("pause"), time |-> Num(500), typing |-> Bool(TRUE)]),
    Obj([response_type |-> Str("text"), text |-> Str("hi")]),
    Obj([response_type |-> Str("unknown"), text |-> Str("hi")]),
    OptionElement(<<Str("y")>>),
    OptionElement(<<Obj(Empty)>>) }

GenericOf(S, n) == {Absent} \cup S \cup {Arr(q) : q \in SeqsUpTo(S, n)}
GenericSet == GenericOf(ElementSet, MaxGeneric)
GenericFew == {Absent, Arr(<<Obj([response_type |-> Str("text"), text |-> Str("hi")])>>)}
GenericOptions == GenericOf(OptionElementSet, 1)

Output(slack, generic, text) ==
  Obj(Opt("slack", slack) @@ Opt("generic", generic) @@ Opt("text", text))

Conversation(output) == Obj(Opt("output", output) @@ "context" :> Obj(Empty))

Params(conversation, raw) ==
  Obj(Opt("conversation", conversation) @@ Opt("raw_input_data", raw))

\* The explored inputs come in four families: every way a required field can
\* be missing with every inbound shape; every generic list with the
\* well-formed inbound shapes; every text list with them; every option value
\* in every position of an option element.
InputFamilies == {"shape", "generic", "text", "option"}

ConversationsOf(family) ==
  CASE family = "shape" ->
         {Absent, Conversation(Absent)} \cup
         {Conversation(Output(s, g, t)) :
            s \in {Absent, Obj([foo |-> Str("bar")])}, g \in GenericFew, t \in TextFew}
    [] family = "generic" ->
         {Conversation(Output(s, g, t)) :
            s \in OverrideSet, g \in GenericSet, t \in TextFew}
    [] family = "text" ->
         {Conversation(Output(s, g, t)) :
            s \in OverrideSet, g \in GenericFew, t \in TextSet}
    [] family = "option" ->
         {Conversation(Output(Absent, g, Absent)) : g \in GenericOptions \ {Absent}}

RawOf(family) ==
  IF family = "shape" THEN RawSet
  ELSE {RawInput(d, ConversationInput) : d \in BodySlackSet}

(***************************************************************************)
(* The state: one invocation of the action and what its caller observes.   *)
(***************************************************************************)
VARIABLES
  params,        \* the argument main was called with, NoCall before the call
  promise,       \* the promise main returned: its state and value
  thrown,        \* the exception main raised to its caller, Undef if none
  resolveCalls,  \* how often the executor called resolve
  delivered      \* the reaction of the caller that has run, "none" before

vars == <<params, promise, thrown, resolveCalls, delivered>>

NoCall == [t |-> "nocall"]
NoPromise == [state |-> "none", value |-> Undef]

Init ==
  /\ params = NoCall
  /\ promise = NoPromise
  /\ thrown = Undef
  /\ resolveCalls = 0
  /\ delivered = "none"

\* main returns r to its caller.
Return(p, r) ==
  /\ params' = p
  /\ promise' = [state |-> r.state, value |-> r.value]
  /\ thrown' = r.thrown
  /\ resolveCalls' = r.resolveCalls

\* main(p) runs to its return statement.
Call(p) == Return(p, main(p))

\* The invocation, with one of the explored inputs.
Main ==
  /\ params = NoCall
  /\ \E family \in InputFamilies :
       \E c \in ConversationsOf(family), r \in RawOf(family) : Call(Params(c, r))
  /\ UNCHANGED delivered

\* The caller's reactions: main(params).then(onFulfilled, onRejected).
OnFulfilled ==
  /\ promise.state = "fulfilled"
  /\ delivered = "none"
  /\ delivered' = "onFulfilled"
  /\ UNCHANGED <<params, promise, thrown, resolveCalls>>

OnRejected ==
  /\ promise.state = "rejected"
  /\ delivered = "none"
  /\ delivered' = "onRejected"
  /\ UNCHANGED <<params, promise, thrown, resolveCalls>>

Next == Main \/ OnFulfilled \/ OnRejected

Spec == Init /\ [][Next]_vars

(***************************************************************************)
(* Vocabulary of the properties: the input as its fields, the paths of     *)
(* insertConversationOutput, the outcome as the caller sees it.            *)
(***************************************************************************)
HasKey(v, k) == v.t = "object" /\ k \in DOMAIN v.f
Field(v, k) == IF HasKey(v, k) THEN v.f[k] ELSE Undef

Called == params # NoCall
Fulfilled == promise.state = "fulfilled"
Rejected == promise.state = "rejected"
Result == promise.value

InConversation == Field(params, "conversation")
InOutput == Field(InConversation, "output")
InOverride == Field(InOutput, "slack")
InGeneric == Field(InOutput, "generic")
InText == Field(InOutput, "text")
InRaw == Field(params, "raw_input_data")
InSlack == Field(InRaw, "slack")
InEvent == Field(InSlack, "event")
InPayload == Field(InSlack, "payload")
InParsed == IF InPayload = Undef THEN Undef ELSE JSONParse(InPayload)
InOriginal == Field(InParsed, "original_message")

EventShape == InEvent # Undef
PayloadShape == InEvent = Undef /\ InPayload # Undef

OverridePath == InOverride # Undef
GenericPath == InOverride = Undef /\ InGeneric # Undef
TextPath == InOverride = Undef /\ InGeneric = Undef

\* The exceptions validateParameters raises: its seven assertions and the
\* parse error of the payload.
ValidationMessages ==
  { "No conversation output.",
    "No conversation output message.",
    "No facebook/generic/text field in conversation.output.",
    "No raw input data found.",
    "No Slack input data found.",
    "No Conversation input data found.",
    "No Slack channel found in raw data." }

ValidationFailures ==
  {Throw("AssertionError", m) : m \in ValidationMessages}
  \cup {Throw("SyntaxError", "Unexpected token")}

FailedValidation == Rejected /\ promise.value \in ValidationFailures

(***************************************************************************)
(* C1                                                                      *)
(***************************************************************************)
\* C1 as stated: the promise main returns never rejects; an input that fails
\* validation (or whose payload does not parse) makes main raise to its
\* caller without returning a promise; every accepted input resolves exactly
\* once with the computed body.
C1_NeverRejects ==
  Called =>
    /\ ~Rejected
    /\ IsThrow(validateParameters(params)) =>
         thrown = validateParameters(params) /\ promise = NoPromise
    /\ ~IsThrow(Executor(params)) =>
         Fulfilled /\ resolveCalls = 1 /\ Result = Executor(params)

\* C1 amended: main never raises to its caller and always returns a promise.
\* An exception of the executor (a failed validation, a payload that does not
\* parse, a malformed option value) rejects that promise with the exception
\* and resolve is never called; for every other input the promise is
\* resolved exactly once, with the computed body.
C1_RejectsInsteadOfRaising ==
  Called =>
    /\ thrown = Undef
    /\ promise.state \in {"fulfilled", "rejected"}
    /\ IsThrow(Executor(params)) =>
         Rejected /\ resolveCalls = 0 /\ promise.value = Executor(params)
    /\ ~IsThrow(Executor(params)) =>
         Fulfilled /\ resolveCalls = 1 /\ Result = Executor(params)
    /\ delivered = "onFulfilled" => Fulfilled
    /\ delivered = "onRejected" => Rejected

\* A call without conversation output, observed by the caller's rejection
\* handler.
C1_Witness ==
  /\ Called
  /\ ~HasKey(params, "conversation")
  /\ Rejected
  /\ promise.value = Throw("AssertionError", "No conversation output.")
  /\ thrown = Undef
  /\ delivered = "onRejected"

(***************************************************************************)
(* C2                                                                      *)
(***************************************************************************)
C2_EventChannel == Field(InEvent, "channel")
C2_PayloadChannel == Field(Field(InParsed, "channel"), "id")

C2_AnyMissing ==
  \/ InConversation = Undef
  \/ InOutput = Undef
  \/ (InOverride = Undef /\ InGeneric = Undef /\ InText = Undef)
  \/ InRaw = Undef
  \/ InSlack = Undef
  \/ Field(InRaw, "conversation") = Undef
  \/ (C2_EventChannel = Undef /\ C2_PayloadChannel = Undef)

\* C2 as stated: an input with any required part missing fails validation and
\* produces no output; an input with every part present (a channel id being
\* present when event.channel or the parsed payload.channel.id yields one)
\* passes validation.
C2_MissingIffRejected ==
  Called =>
    /\ C2_AnyMissing => FailedValidation /\ ~Fulfilled
    /\ ~C2_AnyMissing => ~FailedValidation

\* The channel id as the code resolves it: from the event when there is an
\* event field, otherwise from the payload; and the payload, when there is
\* one, is well-formed JSON.
C2_ResolvableAsSelected ==
  /\ InPayload # Undef => ~IsThrow(InParsed)
  /\ IF EventShape THEN C2_EventChannel # Undef ELSE C2_PayloadChannel # Undef

\* C2 amended: an input with any required part missing fails validation and
\* produces no output; an input with every part present passes validation
\* provided the payload, when present, parses and the channel id is
\* resolvable from the shape the code selects (event.channel when there is an
\* event field, otherwise the parsed payload.channel.id).
C2_MissingRejected ==
  Called =>
    /\ C2_AnyMissing => FailedValidation /\ ~Fulfilled
    /\ (~C2_AnyMissing /\ C2_ResolvableAsSelected) => ~FailedValidation

\* A call whose inbound data has neither an event channel nor a payload
\* channel, rejected by the last assertion.
C2_Witness ==
  /\ Called
  /\ InConversation # Undef /\ InOutput # Undef /\ InText # Undef
  /\ InSlack # Undef /\ Field(InRaw, "conversation") # Undef
  /\ C2_EventChannel = Undef /\ C2_PayloadChannel = Undef
  /\ Rejected
  /\ promise.value = Throw("AssertionError", "No Slack channel found in raw data.")

(***************************************************************************)
(* C3                                                                      *)
(***************************************************************************)
C3_Base ==
  [channel |-> getSlackChannel(params),
   url |-> getSlackPostUrl(params),
   raw_input_data |-> InRaw,
   raw_output_data |-> Obj([conversation |-> InConversation])]

\* C3: with a slack override object in conversation.output, the result is the
\* base record {channel, url, raw_input_data, raw_output_data} with every key
\* of the override copied onto it, the override's keys winning, and nothing
\* else: no ts, text, attachments or message the override does not define.
C3_OverrideVerbatim ==
  (Called /\ Fulfilled /\ OverridePath) =>
    /\ DOMAIN Result.f = DOMAIN C3_Base \cup DOMAIN InOverride.f
    /\ \A k \in DOMAIN InOverride.f : Result.f[k] = InOverride.f[k]
    /\ \A k \in DOMAIN C3_Base \ DOMAIN InOverride.f : Result.f[k] = C3_Base[k]
    /\ \A k \in {"ts", "text", "attachments", "message"} :
         HasKey(Result, k) => HasKey(InOverride, k)

\* An override that redefines channel and url, next to a generic list, a text
\* list and an event that carries a timestamp.
C3_Witness ==
  /\ Called /\ Fulfilled
  /\ HasKey(InOverride, "channel")
  /\ InGeneric # Undef /\ InText # Undef
  /\ Field(InEvent, "ts") # Undef
  /\ Result.f.channel = Str("CO")
  /\ Result.f.url = Str("https://override")
  /\ ~HasKey(Result, "message")

(***************************************************************************)
(* C4                                                                      *)
(***************************************************************************)
\* C4: without an override and with output.generic, the result has a message
\* list and neither text nor attachments, whether or not output.text is
\* there; with neither override nor generic, the result has no message.
C4_OneShape ==
  (Called /\ Fulfilled) =>
    /\ GenericPath =>
         /\ HasKey(Result, "message") /\ Result.f.message.t = "array"
         /\ ~HasKey(Result, "text")
         /\ ~HasKey(Result, "attachments")
    /\ TextPath => ~HasKey(Result, "message")

\* A generic list next to a text list, in the event shape.
C4_Witness ==
  /\ Called /\ Fulfilled /\ GenericPath
  /\ InText = Arr(<<Str("a"), Str("b")>>)
  /\ EventShape
  /\ HasKey(Result, "message")
  /\ ~HasKey(Result, "text")

(***************************************************************************)
(* C5                                                                      *)
(***************************************************************************)
C5_List == IF InGeneric.t = "array" THEN InGeneric.e ELSE <<InGeneric>>
C5_TypeOf(element) == Field(element, "response_type")
C5_Recognized(element) == C5_TypeOf(element) \in {Str(x) : x \in RecognizedTypes}
C5_Kept == SelectSeq(C5_List, C5_Recognized)

C5_Generated(element) ==
  CASE C5_TypeOf(element) = Str("image") -> generateSlackImageData(element)
    [] C5_TypeOf(element) = Str("audio") -> generateSlackAudioData(element)
    [] C5_TypeOf(element) = Str("video") -> generateSlackVideoData(element)
    [] C5_TypeOf(element) = Str("option") -> generateSlackOptionsData(element)
    [] C5_TypeOf(element) = Str("pause") -> element
    [] C5_TypeOf(element) = Str("text") -> Obj([text |-> Field(element, "text")])

\* C5: on the generic path the message list is the in-order image of the
\* elements with a recognized response_type, each under its generator; other
\* elements give no entry and no error; a generic value that is one element
\* is handled as a list of that element.
C5_MessageIsImage ==
  (Called /\ GenericPath) =>
    /\ Fulfilled =>
         /\ HasKey(Result, "message")
         /\ Result.f.message.t = "array"
         /\ Len(Result.f.message.e) = Len(C5_Kept)
         /\ \A i \in DOMAIN C5_Kept :
              Result.f.message.e[i] = C5_Generated(C5_Kept[i])
    /\ ( /\ \A i \in DOMAIN C5_List : C5_TypeOf(C5_List[i]) # Str("option")
         /\ ~IsThrow(validateParameters(params))
         /\ ~IsThrow(getSlackPostUrl(params)) ) => Fulfilled

\* A list of an unrecognized element followed by a recognized one.
C5_Witness ==
  /\ Called /\ Fulfilled /\ GenericPath
  /\ InGeneric.t = "array" /\ Len(InGeneric.e) = 2
  /\ C5_TypeOf(InGeneric.e[1]) = Str("unknown")
  /\ C5_TypeOf(InGeneric.e[2]) = Str("image")
  /\ Len(Result.f.message.e) = 1
  /\ Result.f.message.e[1] =
       Obj([attachments |->
              Arr(<<Obj([title |-> Str("T"), pretext |-> Str("D"),
                         image_url |-> Str("S")])>>)])

(***************************************************************************)
(* C6                                                                      *)
(***************************************************************************)
C6_Case ==
  /\ Called /\ Fulfilled /\ PayloadShape /\ TextPath
  /\ Field(InOriginal, "ts").t = "string" /\ Field(InOriginal, "ts") # Str("")
  /\ Field(InOriginal, "text").t = "string" /\ Field(InOriginal, "text") # Str("")

\* C6 as stated: in the payload shape on the plain-text path, with
\* original_message = {ts, text}, the result has that ts, that text, and
\* attachments = [{text: X}] with X the result's text, the original text.
C6_AttachmentIsOriginalText ==
  C6_Case =>
    /\ Field(Result, "ts") = Field(InOriginal, "ts")
    /\ Field(Result, "text") = Field(InOriginal, "text")
    /\ Field(Result, "attachments") = Arr(<<Obj([text |-> Field(Result, "text")])>>)

\* C6 amended: in the payload shape on the plain-text path, with
\* original_message = {ts, text}, the result has that ts and that text, and
\* attachments = [{text: X}] with X the elements of output.text joined with
\* single spaces.
C6_AttachmentIsJoinedText ==
  C6_Case =>
    /\ Field(Result, "ts") = Field(InOriginal, "ts")
    /\ Field(Result, "text") = Field(InOriginal, "text")
    /\ Field(Result, "attachments") =
         Arr(<<Obj([text |-> Str(JoinFrom(InText.e, 1, " "))])>>)

\* output.text = ["a", "b"] with original_message = {ts: "123", text: "orig"}.
C6_Witness ==
  /\ C6_Case
  /\ InText = Arr(<<Str("a"), Str("b")>>)
  /\ InOriginal = OrigMessage
  /\ Result.f.text = Str("orig")
  /\ Result.f.attachments = Arr(<<Obj([text |-> Str("a b")])>>)

(***************************************************************************)
(* C7                                                                      *)
(***************************************************************************)
\* C7: without an override, channel and url come from one and the same
\* inbound shape: with an event field, channel = event.channel and url is
\* the chat.postMessage endpoint; with a payload field and no event,
\* channel = payload.channel.id and url = payload.response_url or else the
\* chat.update endpoint; also for an input that has both fields.
C7_OneShape ==
  (Called /\ Fulfilled /\ ~OverridePath) =>
    /\ EventShape =>
         /\ Result.f.channel = Field(InEvent, "channel")
         /\ Result.f.url = urlChatPost
    /\ PayloadShape =>
         /\ Result.f.channel = Field(Field(InParsed, "channel"), "id")
         /\ Result.f.url = IF Field(InParsed, "response_url") # Undef
                             THEN Field(InParsed, "response_url")
                             ELSE urlChatUpdate

(***************************************************************************)
(* C8                                                                      *)
(***************************************************************************)
C8_InputText(value) == Field(Field(value, "input"), "text")

C8_GoodValue(value) ==
  \/ value.t = "string"
  \/ /\ value.t = "object"
     /\ C8_InputText(value).t = "string"
     /\ C8_InputText(value) # Str("")

C8_Expected(value) == IF value.t = "string" THEN value ELSE C8_InputText(value)

C8_Options(element) == Field(element, "options").e

C8_SomeBadValue ==
  \E i \in DOMAIN C5_List :
    /\ C5_TypeOf(C5_List[i]) = Str("option")
    /\ \E j \in DOMAIN C8_Options(C5_List[i]) :
         ~C8_GoodValue(Field(C8_Options(C5_List[i])[j], "value"))

C8_Buttons(entry) == entry.f.attachments.e[1].f.actions.e

\* C8: the value of a button is the option's value when that is a string,
\* its input.text when it is a structured value with a non-empty string
\* input.text; with any other option value the call fails with an assertion
\* error and produces no result; so every button of a result has a string
\* value.
C8_OptionValues ==
  (Called /\ GenericPath) =>
    /\ C8_SomeBadValue =>
         /\ Rejected
         /\ ( ~IsThrow(validateParameters(params))
              /\ ~IsThrow(getSlackPostUrl(params)) ) =>
                promise.value.err = "AssertionError"
    /\ Fulfilled =>
         \A i \in DOMAIN C5_Kept :
           C5_TypeOf(C5_Kept[i]) = Str("option") =>
             /\ Len(C8_Buttons(Result.f.message.e[i])) = Len(C8_Options(C5_Kept[i]))
             /\ \A j \in DOMAIN C8_Options(C5_Kept[i]) :
                  LET button == C8_Buttons(Result.f.message.e[i])[j]
                      value == Field(C8_Options(C5_Kept[i])[j], "value")
                  IN  /\ button.f.value.t = "string"
                      /\ button.f.value = C8_Expected(value)

\* An option element with a string value and a structured value.
C8_Witness ==
  /\ Called /\ Fulfilled /\ GenericPath
  /\ InGeneric.t = "array" /\ Len(InGeneric.e) = 1
  /\ C5_TypeOf(InGeneric.e[1]) = Str("option")
  /\ Len(C8_Options(InGeneric.e[1])) = 2
  /\ Field(C8_Options(InGeneric.e[1])[1], "value") = Str("y")
  /\ Field(C8_Options(InGeneric.e[1])[2], "value") =
       Obj([input |-> Obj([text |-> Str("y")])])
  /\ C8_Buttons(Result.f.message.e[1]) =
       << Obj([name |-> Str("Yes"), type |-> Str("button"), text |-> Str("Yes"),
               value |-> Str("y")]),
          Obj([name |-> Str("No"), type |-> Str("button"), text |-> Str("No"),
               value |-> Str("y")]) >>

(***************************************************************************)
(* C9                                                                      *)
(***************************************************************************)
C9_Case == Called /\ Fulfilled /\ EventShape /\ TextPath
C9_Joined == JoinFrom(InText.e, 1, " ")

\* C9 as stated: in the event shape on the plain-text path the result's text
\* is output.text joined with single spaces and there are no attachments,
\* for every text list, the empty list and a list with an empty join
\* included.
C9_TextAlwaysSet ==
  C9_Case =>
    /\ HasKey(Result, "text")
    /\ Result.f.text = Str(C9_Joined)
    /\ ~HasKey(Result, "attachments")

\* C9 amended: in the event shape on the plain-text path the result has no
\* attachments; its text is output.text joined with single spaces when that
\* join is not empty, and it has no text field when the join is empty (an
\* empty list, or a list of one empty string).
C9_TextSetWhenNotEmpty ==
  C9_Case =>
    /\ ~HasKey(Result, "attachments")
    /\ C9_Joined # "" => HasKey(Result, "text") /\ Result.f.text = Str(C9_Joined)
    /\ C9_Joined = "" => ~HasKey(Result, "text")

\* output.text = ["a", "b"] in the event shape.
C9_Witness ==
  /\ C9_Case
  /\ InText = Arr(<<Str("a"), Str("b")>>)
  /\ Result.f.text = Str("a b")
  /\ ~HasKey(Result, "attachments")

(***************************************************************************)
(* C10                                                                     *)
(***************************************************************************)
C10_Expected ==
  IF EventShape
    THEN IF Field(Field(InEvent, "message"), "ts") # Undef
           THEN Field(Field(InEvent, "message"), "ts")
           ELSE Field(InEvent, "ts")
    ELSE Field(InOriginal, "ts")

\* C10: on the generic and plain-text paths ts is event.message.ts when that
\* is present, otherwise event.ts, in the event shape, and
\* payload.original_message.ts in the payload shape; when there is none the
\* result has no ts key; on the override path no ts is attached.
C10_Timestamp ==
  (Called /\ Fulfilled) =>
    IF OverridePath
      THEN Field(Result, "ts") = Field(InOverride, "ts")
           /\ (HasKey(Result, "ts") <=> HasKey(InOverride, "ts"))
      ELSE /\ C10_Expected # Undef =>
                HasKey(Result, "ts") /\ Result.f.ts = C10_Expected
           /\ C10_Expected = Undef => ~HasKey(Result, "ts")
           /\ HasKey(Result, "ts") =>
                Result.f.ts.t = "string" /\ Result.f.ts # Str("")

\* An event with its own timestamp and a nested message timestamp, on the
\* generic path.
C10_Witness ==
  /\ Called /\ Fulfilled /\ GenericPath
  /\ Field(InEvent, "ts") = Str("111")
  /\ Field(Field(InEvent, "message"), "ts") = Str("222")
  /\ Result.f.ts = Str("222")

====
